---- MODULE Spec2Model ----
(***************************************************************************)
(* A model of the parameterized prompt template engine of                  *)
(* src/prompt_utils.py: getPromptFromTemplate and its helpers, run against *)
(* the process-wide random source of Python's random module.               *)
(*                                                                         *)
(* Strings are sequences of one-character strings, so that the placeholder *)
(* pattern, str(), join and the substitution pass work on characters.      *)
(* Floats are exact rationals [kind |-> "num", n, d] (d > 0) plus the two  *)
(* IEEE specials [kind |-> "inf"] and [kind |-> "nan"].                    *)
(***************************************************************************)
EXTENDS Integers, Sequences, FiniteSets, TLC

\* the resolver and the random source it draws from
VARIABLES template, specs, rng, call, repeated
\* the normalizer and the single-pick selector run on their own
VARIABLES distributions, normalized, picked

\* the calls of getPromptFromTemplate that are under way at the same time
VARIABLES calls

\* OpenAiTTSProvider.generate_speech: its configuration and locals, and what
\* is seen of it from outside (requests sent, the last request's outcome,
\* whether a request succeeded, how the call ended)
VARIABLES max_retries, file_path, attempt, last_exception, tts_pc,
          sent, outcome, succeeded, result

normVars == <<distributions, normalized, picked>>

ttsVars == <<max_retries, file_path, attempt, last_exception, tts_pc,
             sent, outcome, succeeded, result>>

\* everything of the prompt resolver
promptVars == <<template, specs, rng, call, repeated, normVars, calls>>

vars == <<promptVars, ttsVars>>

---------------------------------------------------------------------------
(* Bounds of the model. *)

\* length of the cycle of outputs that stands for the generator's state
TapeLen == 2
\* entries of a valueDistribution in the selection inputs
MaxEntries == 2
\* parameter specs in the key-shape inputs
MaxSpecs == 2
\* parameter specs in the duplicate-key inputs
MaxDupSpecs == 3
\* pieces a template of the template inputs is put together from
MaxTokens == 3
\* parameter specs in the inputs of the calls made at the same time
MaxConcSpecs == 2
\* the largest max_retries a speech provider is made with
MaxRetries == 3

---------------------------------------------------------------------------
(* Python values. *)

\* None, where a string (a sequence of characters) is expected
PyNone == <<"<None>">>
\* a dict key or an attribute that is not there
Absent == <<"<absent>">>
\* seed=None is <<>>, seed=s is <<s>>
NoSeed == <<>>

Num(n, d) == [kind |-> "num", n |-> n, d |-> d]
Inf == [kind |-> "inf", n |-> 1, d |-> 1]
NaN == [kind |-> "nan", n |-> 0, d |-> 1]
\* a probability that is a string float() cannot parse, None, or not there
BadStr == [kind |-> "str", n |-> 0, d |-> 1]
NoneProb == [kind |-> "none", n |-> 0, d |-> 1]
AbsentProb == [kind |-> "absent", n |-> 0, d |-> 1]

Zero == Num(0, 1)

\* a + b, a * b, a / b, a < b, a <= b on finite rationals
RAdd(a, b) == Num(a.n * b.d + b.n * a.d, a.d * b.d)
RMul(a, b) == Num(a.n * b.n, a.d * b.d)
RDiv(a, b) == Num(a.n * b.d, a.d * b.n)
RLt(a, b) == a.n * b.d < b.n * a.d
RLe(a, b) == a.n * b.d <= b.n * a.d
REq(a, b) == a.n * b.d = b.n * a.d

\* IEEE addition and division as far as the code uses them (operands >= 0)
FAdd(a, b) ==
    IF a.kind = "nan" \/ b.kind = "nan" THEN NaN
    ELSE IF a.kind = "inf" \/ b.kind = "inf" THEN Inf
    ELSE RAdd(a, b)

\* a / b for b > 0 or b infinite or nan
FDiv(a, b) ==
    IF a.kind = "nan" \/ b.kind = "nan" THEN NaN
    ELSE IF b.kind = "inf" THEN (IF a.kind = "inf" THEN NaN ELSE Zero)
    ELSE IF a.kind = "inf" THEN Inf
    ELSE RDiv(a, b)

\* a < b, a <= b, a >= b on floats: any comparison with nan is false
FLt(a, b) ==
    IF a.kind = "nan" \/ b.kind = "nan" THEN FALSE
    ELSE IF a.kind = "inf" THEN FALSE
    ELSE IF b.kind = "inf" THEN TRUE
    ELSE RLt(a, b)

FLe(a, b) ==
    IF a.kind = "nan" \/ b.kind = "nan" THEN FALSE
    ELSE IF b.kind = "inf" THEN TRUE
    ELSE IF a.kind = "inf" THEN FALSE
    ELSE RLe(a, b)

FGe(a, b) == FLe(b, a)

IsFinite(a) == a.kind = "num"

\* float(d.get("probability", 0.0)) inside try/except: the default 0.0 when the
\* key is not there, 0.0 when float() raises (None, an unparseable string)
FloatOrZero(p) ==
    IF p.kind \in {"num", "inf", "nan"} THEN p ELSE Zero

\* str(d.get("value", "")): "" when the key is not there, "None" for None
StrValue(v) ==
    IF v = Absent THEN <<>>
    ELSE IF v = PyNone THEN <<"N", "o", "n", "e">>
    ELSE v

\* Python truth of a key: None and "" are false
Falsy(k) == k = PyNone \/ k = Absent \/ k = <<>>

---------------------------------------------------------------------------
(* The random source: random.seed and random.random.  The generator's      *)
(* state is the cycle of its coming outputs, floats of [0, 1).             *)

\* the floats random.random() returns here: 0.0 and 0.9
Randoms == <<Num(0, 1), Num(9, 10)>>

RngStates == [1..TapeLen -> {Randoms[i] : i \in 1..Len(Randoms)}]

\* random.seed(s): the state is a function of the seed alone
SeedState(s) == [i \in 1..TapeLen |-> Randoms[((s + i) % Len(Randoms)) + 1]]

\* random.random(): the output, and the state after it
RandomOut(g) == g[1]
RandomNext(g) == [i \in 1..TapeLen |-> IF i = TapeLen THEN g[1] ELSE g[i + 1]]

---------------------------------------------------------------------------
(* Distribution normalizer and selector. *)

One == Num(1, 1)

\* probs of _normalize_probabilities: float() or 0.0, negatives set to 0.0
CoercedProb(d) ==
    LET p == FloatOrZero(d.probability)
    IN  IF FLt(p, Zero) THEN Zero ELSE p

\* sum of the first k floats of s, added left to right
RECURSIVE FSumTo(_, _)
FSumTo(s, k) == IF k = 0 THEN Zero ELSE FAdd(FSumTo(s, k - 1), s[k])

UniformWeights(dists) ==
    LET n == IF Len(dists) > 0 THEN Len(dists) ELSE 1
    IN  [i \in 1..Len(dists) |-> Num(1, n)]

_normalize_probabilities(dists) ==
    LET probs == [i \in 1..Len(dists) |-> CoercedProb(dists[i])]
        total == FSumTo(probs, Len(probs))
    IN  IF FLe(total, Zero)
        THEN UniformWeights(dists)
        ELSE [i \in 1..Len(probs) |-> FDiv(probs[i], total)]

\* random.choices(values, weights=probs, k=1)[0] of the standard library: it
\* raises ValueError when the total weight is not positive or not finite, and
\* otherwise draws once and bisects the cumulative weights
Choices(values, weights, g) ==
    LET n == Len(values)
        total == FSumTo(weights, n)
        x == RMul(RandomOut(g), total)
        idx == Cardinality({j \in 1..(n - 1) : FLe(FSumTo(weights, j), x)}) + 1
    IN  IF FLe(total, Zero) \/ ~IsFinite(total)
        THEN [raised |-> TRUE, value |-> <<>>, rng |-> g, draws |-> 0]
        ELSE [raised |-> FALSE, value |-> values[idx], rng |-> RandomNext(g),
              draws |-> 1]

_pick_one_value(dists, g) ==
    IF dists = <<>>
    THEN [raised |-> FALSE, value |-> <<>>, rng |-> g, draws |-> 0]
    ELSE Choices([i \in 1..Len(dists) |-> StrValue(dists[i].value)],
                 _normalize_probabilities(dists), g)

\* one entry of the loop of _pick_multiple_values
BernoulliTrial(d, acc) ==
    LET value == StrValue(d.value)
        p == FloatOrZero(d.probability)
    IN  IF FLe(p, Zero) THEN acc
        ELSE IF FGe(p, One)
        THEN [acc EXCEPT !.values = Append(@, value)]
        ELSE [values |-> IF FLt(RandomOut(acc.rng), p)
                         THEN Append(acc.values, value) ELSE acc.values,
              rng |-> RandomNext(acc.rng),
              draws |-> acc.draws + 1]

RECURSIVE PickMultipleTo(_, _, _)
PickMultipleTo(dists, k, g) ==
    IF k = 0 THEN [values |-> <<>>, rng |-> g, draws |-> 0]
    ELSE BernoulliTrial(dists[k], PickMultipleTo(dists, k - 1, g))

\* a multi-pick that tries each entry with its weight normalized over the entries
RECURSIVE PickNormalizedTo(_, _, _)
PickNormalizedTo(dists, k, g) ==
    IF k = 0 THEN [values |-> <<>>, rng |-> g, draws |-> 0]
    ELSE BernoulliTrial([value |-> dists[k].value,
                         probability |-> _normalize_probabilities(dists)[k]],
                        PickNormalizedTo(dists, k - 1, g))

_pick_multiple_values_normalized(dists, g) == PickNormalizedTo(dists, Len(dists), g)

_pick_multiple_values(dists, g) == PickMultipleTo(dists, Len(dists), g)

\* one item of a valueDistribution as a plain dict
NormalizeItem(item) ==
    IF item.shape = "dict"
    THEN [value |-> item.value, probability |-> item.probability]
    ELSE IF item.shape = "model"
    THEN [value |-> item.value, probability |-> item.probability]
    ELSE [value |-> IF item.value = Absent THEN PyNone ELSE item.value,
          probability |-> IF item.probability = AbsentProb
                          THEN NoneProb ELSE item.probability]

_normalize_vdist_items(vdist) ==
    [i \in 1..Len(vdist) |-> NormalizeItem(vdist[i])]

---------------------------------------------------------------------------
(* Placeholders: _PLACEHOLDER_PATTERN = \{\{\s*([a-zA-Z0-9_.-]+)\s*\}\}     *)

\* the characters of the model's strings
Alphabet == {"{", "}", " ", ":", ",", "a", "b", "A", "B", "T", "N", "o", "n", "e"}

\* those of them in the class [a-zA-Z0-9_.-], and those in \s
NameChars == {"a", "b", "A", "B", "T", "N", "o", "n", "e"}
SpaceChars == {" "}

\* the first position from i on whose character is not in class (Len(t)+1 if none)
RECURSIVE SkipClass(_, _, _)
SkipClass(t, i, class) ==
    IF i <= Len(t) /\ t[i] \in class THEN SkipClass(t, i + 1, class) ELSE i

TwoAt(t, i, c) == i + 1 <= Len(t) /\ t[i] = c /\ t[i + 1] = c

\* the pattern with * for + in the name
MatchAt_emptyname(t, i) ==
    LET j1 == SkipClass(t, i + 2, SpaceChars)
        j2 == SkipClass(t, j1, NameChars)
        j3 == SkipClass(t, j2, SpaceChars)
    IN  IF TwoAt(t, i, "{") /\ TwoAt(t, j3, "}")
        THEN [found |-> TRUE, name |-> SubSeq(t, j1, j2 - 1),
              text |-> SubSeq(t, i, j3 + 1), end |-> j3 + 2]
        ELSE [found |-> FALSE, name |-> <<>>, text |-> <<>>, end |-> i]

\* the pattern matched at position i: the classes are disjoint, so the greedy
\* match is the only one.  name is group(1), text is group(0), end the position
\* after the match
MatchAt(t, i) ==
    LET j1 == SkipClass(t, i + 2, SpaceChars)
        j2 == SkipClass(t, j1, NameChars)
        j3 == SkipClass(t, j2, SpaceChars)
    IN  IF TwoAt(t, i, "{") /\ j2 > j1 /\ TwoAt(t, j3, "}")
        THEN [found |-> TRUE, name |-> SubSeq(t, j1, j2 - 1),
              text |-> SubSeq(t, i, j3 + 1), end |-> j3 + 2]
        ELSE [found |-> FALSE, name |-> <<>>, text |-> <<>>, end |-> i]

---------------------------------------------------------------------------
(* Warnings, by the message the code formats. *)

\* f"Parameter at index {idx} missing 'key'; skipping."
WMissingKey(idx) == [kind |-> "missing_key", idx |-> idx, key |-> <<>>]
\* f"Parameter object at index {idx} missing 'key'; skipping."
WMissingKeyObject(idx) == [kind |-> "missing_key_object", idx |-> idx, key |-> <<>>]
\* f"No valueDistribution provided for parameter '{key}'."
WNoDistribution(key) == [kind |-> "no_distribution", idx |-> -1, key |-> key]
\* f"Template contains placeholder '{{k}}' but no parameter details were provided."
WUnresolved(k) == [kind |-> "unresolved", idx |-> -1, key |-> k]

---------------------------------------------------------------------------
(* Template resolver. *)

\* a map that keeps the first spec of a key
DictSet_firstwins(dct, key, val) ==
    IF \E j \in 1..Len(dct) : dct[j].key = key
    THEN dct
    ELSE Append(dct, [key |-> key, details |-> val])

\* dct[key] = val on a dict kept as the sequence of its items in insertion
\* order: a key that is there keeps its place
DictSet(dct, key, val) ==
    IF \E j \in 1..Len(dct) : dct[j].key = key
    THEN [j \in 1..Len(dct) |->
            IF dct[j].key = key THEN [key |-> key, details |-> val] ELSE dct[j]]
    ELSE Append(dct, [key |-> key, details |-> val])

\* one round of the loop that builds key_to_details; idx is enumerate's index
AddSpec(p, idx, acc) ==
    IF p.shape = "dict"
    THEN IF Falsy(p.key)
         THEN [acc EXCEPT !.warnings = Append(@, WMissingKey(idx))]
         ELSE [acc EXCEPT !.dct = DictSet(@, p.key, p)]
    ELSE IF p.shape = "model"
    THEN [acc EXCEPT !.dct = DictSet(@, p.key, p)]
    ELSE IF Falsy(p.key)
         THEN [acc EXCEPT !.warnings = Append(@, WMissingKeyObject(idx))]
         ELSE [acc EXCEPT !.dct = DictSet(@, p.key, p)]

RECURSIVE KeyToDetailsTo(_, _)
KeyToDetailsTo(list, k) ==
    IF k = 0 THEN [dct |-> <<>>, warnings |-> <<>>]
    ELSE AddSpec(list[k], k - 1, KeyToDetailsTo(list, k - 1))

\* details.get("valueDistribution", []) or []
RawVDist(details) ==
    IF details.valueDistribution.given THEN details.valueDistribution.items
    ELSE <<>>

SetSelection(st, key, vals, g, n) ==
    [st EXCEPT !.selections = [x \in DOMAIN @ \cup {key} |->
                                  IF x = key THEN vals ELSE @[x]],
               !.draws = [x \in DOMAIN @ \cup {key} |->
                                  IF x = key THEN n ELSE @[x]],
               !.rng = g]

\* a round that does not look for an empty distribution
SelectFor_unchecked(key, details, st) ==
    LET norm_vdist == _normalize_vdist_items(RawVDist(details))
        one == _pick_one_value(norm_vdist, st.rng)
        many == _pick_multiple_values(norm_vdist, st.rng)
    IN  IF st.raised THEN st
        ELSE IF ~details.chooseMultiple
        THEN IF one.raised THEN [st EXCEPT !.raised = TRUE]
             ELSE SetSelection(st, key,
                               IF one.value # <<>> THEN <<one.value>> ELSE <<>>,
                               one.rng, one.draws)
        ELSE SetSelection(st, key, many.values, many.rng, many.draws)

\* one round of the loop over key_to_details.items()
SelectFor(key, details, st) ==
    LET norm_vdist == _normalize_vdist_items(RawVDist(details))
        one == _pick_one_value(norm_vdist, st.rng)
        many == _pick_multiple_values(norm_vdist, st.rng)
    IN  IF st.raised THEN st
        ELSE IF norm_vdist = <<>>
        THEN [SetSelection(st, key, <<>>, st.rng, 0)
                 EXCEPT !.warnings = Append(@, WNoDistribution(key))]
        ELSE IF ~details.chooseMultiple
        THEN IF one.raised THEN [st EXCEPT !.raised = TRUE]
             ELSE SetSelection(st, key,
                               IF one.value # <<>> THEN <<one.value>> ELSE <<>>,
                               one.rng, one.draws)
        ELSE SetSelection(st, key, many.values, many.rng, many.draws)

RECURSIVE SelectTo(_, _, _)
SelectTo(dct, k, st) ==
    IF k = 0 THEN st
    ELSE SelectFor(dct[k].key, dct[k].details, SelectTo(dct, k - 1, st))

\* a join with a bare comma
RECURSIVE Join_nospace(_)
Join_nospace(vals) ==
    IF vals = <<>> THEN <<>>
    ELSE IF Len(vals) = 1 THEN vals[1]
    ELSE vals[1] \o <<",">> \o Join_nospace(Tail(vals))

\* ", ".join(vals)
RECURSIVE Join(_)
Join(vals) ==
    IF vals = <<>> THEN <<>>
    ELSE IF Len(vals) = 1 THEN vals[1]
    ELSE vals[1] \o <<",", " ">> \o Join(Tail(vals))

\* a replacement that writes an unresolved placeholder back from its name
_replacement_rewritten(m, selections, warnings) ==
    IF m.name \in DOMAIN selections
    THEN [text |-> IF selections[m.name] = <<>> THEN <<>>
                   ELSE Join(selections[m.name]),
          warnings |-> warnings]
    ELSE [text |-> <<"{", "{">> \o m.name \o <<"}", "}">>,
          warnings |-> Append(warnings, WUnresolved(m.name))]

\* _replacement(match): the text to put in, and the warnings after it
_replacement(m, selections, warnings) ==
    IF m.name \in DOMAIN selections
    THEN [text |-> IF selections[m.name] = <<>> THEN <<>>
                   ELSE Join(selections[m.name]),
          warnings |-> warnings]
    ELSE [text |-> m.text, warnings |-> Append(warnings, WUnresolved(m.name))]

\* _PLACEHOLDER_PATTERN.sub(_replacement, template_str) from position i on:
\* one pass, left to right, over the template's own characters
RECURSIVE SubFrom(_, _, _, _)
SubFrom(t, i, selections, acc) ==
    IF i > Len(t) THEN acc
    ELSE LET m == MatchAt(t, i)
             r == _replacement(m, selections, acc.warnings)
         IN  IF m.found
             THEN SubFrom(t, m.end, selections,
                          [prompt |-> acc.prompt \o r.text, warnings |-> r.warnings])
             ELSE SubFrom(t, i + 1, selections,
                          [acc EXCEPT !.prompt = Append(@, t[i])])

\* what a call with no result yet, or a call that raised, leaves to look at
NoResult(seed, tmpl, status) ==
    [seed |-> seed, tmpl |-> tmpl, status |-> status, prompt |-> <<>>,
     selections |-> <<>>, warnings |-> <<>>, draws |-> <<>>]

\* a resolver that never seeds the random source
SeedIfGiven_never(seed, g) == g

\* if seed is not None: random.seed(seed)
SeedIfGiven(seed, g) == IF seed # NoSeed THEN SeedState(seed[1]) ELSE g

\* getPromptFromTemplate(template_input, seed) run on the random source in
\* state g: the call's outcome and the random source's state after it
getPromptFromTemplate(template_str, param_details_list, seed, g) ==
    LET g0 == SeedIfGiven(seed, g)
        built == KeyToDetailsTo(param_details_list, Len(param_details_list))
        sel == SelectTo(built.dct, Len(built.dct),
                        [raised |-> FALSE, selections |-> <<>>, draws |-> <<>>,
                         warnings |-> built.warnings, rng |-> g0])
        filled == SubFrom(template_str, 1, sel.selections,
                          [prompt |-> <<>>, warnings |-> sel.warnings])
    IN  IF sel.raised
        THEN [out |-> NoResult(seed, template_str, "raised"), rng |-> sel.rng]
        ELSE [out |-> [seed |-> seed, tmpl |-> template_str, status |-> "returned",
                       prompt |-> filled.prompt, selections |-> sel.selections,
                       warnings |-> filled.warnings, draws |-> sel.draws],
              rng |-> sel.rng]

---------------------------------------------------------------------------
(* Inputs. *)

SeqsUpTo(S, n) == UNION {[1..k -> S] : k \in 0..n}

Entry(shape, value, probability) ==
    [shape |-> shape, value |-> value, probability |-> probability]

ParamSpec(shape, key, given, items, multi) ==
    [shape |-> shape, key |-> key,
     valueDistribution |-> [given |-> given, items |-> items],
     chooseMultiple |-> multi]

KeyA == <<"a">>
KeyB == <<"b">>
ValA == <<"A">>
ValB == <<"B">>
\* a value that reads as a placeholder
ValPlaceholderB == <<"{", "{", "b", "}", "}">>
Half == Num(1, 2)

Seeds == {1, 2}
SeedArgs == {NoSeed} \cup {<<s>> : s \in Seeds}

\* Selection inputs: one dict spec for key a, every distribution of up to
\* MaxEntries of these entries, both modes.
SelEntries ==
    {Entry("dict", ValA, Half), Entry("dict", ValB, Half),
     Entry("dict", ValA, Num(2, 1)), Entry("dict", <<>>, One),
     Entry("dict", ValA, Zero), Entry("dict", ValB, Num(-1, 1)),
     Entry("dict", ValA, Inf), Entry("dict", ValB, NaN),
     Entry("obj", Absent, AbsentProb), Entry("model", ValB, One)}
SelTemplate == <<"T", ":", "{", "{", "a", "}", "}">>
SelInputs ==
    {[template |-> SelTemplate, specs |-> <<ParamSpec("dict", KeyA, TRUE, d, m)>>] :
        d \in SeqsUpTo(SelEntries, MaxEntries), m \in BOOLEAN}

\* Key-shape inputs: up to MaxSpecs of these specs: every shape with a key, an
\* empty key or no key, with a distribution that is missing, empty or not.
KeySpecs ==
    {ParamSpec("dict", KeyA, TRUE, <<Entry("dict", ValA, One)>>, FALSE),
     ParamSpec("dict", <<>>, TRUE, <<Entry("dict", ValA, One)>>, FALSE),
     ParamSpec("dict", Absent, TRUE, <<Entry("dict", ValA, One)>>, TRUE),
     ParamSpec("dict", KeyA, FALSE, <<>>, TRUE),
     ParamSpec("dict", KeyA, TRUE, <<>>, FALSE),
     ParamSpec("obj", KeyA, TRUE, <<Entry("dict", ValA, One)>>, TRUE),
     ParamSpec("obj", <<>>, TRUE, <<Entry("dict", ValA, One)>>, FALSE),
     ParamSpec("obj", Absent, FALSE, <<>>, FALSE),
     ParamSpec("obj", KeyA, FALSE, <<>>, TRUE),
     ParamSpec("model", KeyA, TRUE, <<Entry("model", ValA, One)>>, FALSE),
     ParamSpec("model", <<>>, TRUE, <<Entry("model", ValA, One)>>, FALSE),
     ParamSpec("model", KeyA, TRUE, <<>>, TRUE)}
KeyTemplate == <<"{", "{", "a", "}", "}", ":", "{", "{", " ", "a", " ", "}", "}">>
KeyInputs ==
    {[template |-> KeyTemplate, specs |-> l] : l \in SeqsUpTo(KeySpecs, MaxSpecs)}

\* Duplicate-key inputs: up to MaxDupSpecs of these dict specs over two keys.
EvenOdds == <<Entry("dict", ValA, Half), Entry("dict", ValB, Half)>>
DupSpecs ==
    {ParamSpec("dict", KeyA, TRUE, EvenOdds, FALSE),
     ParamSpec("dict", KeyA, TRUE, EvenOdds, TRUE),
     ParamSpec("dict", KeyA, TRUE, <<>>, FALSE),
     ParamSpec("dict", KeyB, TRUE, EvenOdds, FALSE),
     ParamSpec("dict", KeyB, TRUE, <<>>, TRUE)}
DupTemplate == <<"{", "{", "a", "}", "}", ":", "{", "{", "b", "}", "}">>
DupInputs ==
    {[template |-> DupTemplate, specs |-> l] : l \in SeqsUpTo(DupSpecs, MaxDupSpecs)}

\* Template inputs: every template put together from up to MaxTokens of these
\* pieces, with a few spec lists.
Tokens ==
    {<<"a">>, <<"{", "{">>, <<"}", "}">>, <<"{", "{", " ", "a", " ", "}", "}">>}
RECURSIVE TemplatesOf(_)
TemplatesOf(n) ==
    IF n = 0 THEN {<<>>}
    ELSE TemplatesOf(n - 1) \cup {t \o tok : t \in TemplatesOf(n - 1), tok \in Tokens}
TmplSpecLists ==
    {<<>>,
     <<ParamSpec("dict", KeyA, TRUE, <<Entry("dict", ValA, One)>>, FALSE)>>,
     <<ParamSpec("dict", KeyA, TRUE,
                 <<Entry("dict", ValA, One), Entry("dict", ValPlaceholderB, One)>>,
                 TRUE),
       ParamSpec("dict", KeyB, TRUE, <<Entry("dict", ValB, One)>>, FALSE)>>,
     <<ParamSpec("dict", Absent, TRUE, <<Entry("dict", ValB, One)>>, FALSE),
       ParamSpec("dict", KeyA, TRUE, <<Entry("dict", ValA, One)>>, FALSE)>>,
     <<ParamSpec("dict", KeyA, TRUE,
                 <<Entry("dict", ValA, Half), Entry("dict", ValB, Half)>>, FALSE)>>}
TmplInputs ==
    {[template |-> t, specs |-> l] : t \in TemplatesOf(MaxTokens), l \in TmplSpecLists}

Inputs == SelInputs \cup KeyInputs \cup DupInputs \cup TmplInputs

---------------------------------------------------------------------------
(* The state machine: a caller that holds one template input and resolves  *)
(* it, or resolves the prompt it got back, against the shared generator,   *)
(* any number of times.  repeated tells that the last call had the         *)
(* template and the seed of the call before it.                            *)

\* nothing has run yet
NotRun == [status |-> "none", value |-> <<>>]

\* the normalizer and the selector are not run on their own
NormIdle ==
    /\ distributions = <<>>
    /\ normalized = NotRun
    /\ picked = NotRun

\* no calls are under way at the same time
ConcIdle == calls = <<>>

\* no speech is generated
TTSIdle ==
    /\ max_retries = 0
    /\ file_path = ""
    /\ attempt = 0
    /\ last_exception = "None"
    /\ tts_pc = "idle"
    /\ sent = 0
    /\ outcome = "none"
    /\ succeeded = FALSE
    /\ result = [kind |-> "none", path |-> ""]

InitWith(inputs) ==
    /\ \E in \in inputs : template = in.template /\ specs = in.specs
    /\ rng \in RngStates
    /\ call = NoResult(NoSeed, <<>>, "none")
    /\ repeated = FALSE
    /\ NormIdle
    /\ ConcIdle
    /\ TTSIdle

Init == InitWith(Inputs)
InitSel == InitWith(SelInputs)
InitKey == InitWith(KeyInputs)
InitDup == InitWith(DupInputs)
InitTmpl == InitWith(TmplInputs)

\* getPromptFromTemplate({promptTemplate: template_str, ...: specs}, seed)
Call(template_str, seed) ==
    /\ LET r == getPromptFromTemplate(template_str, specs, seed, rng)
       IN  /\ rng' = r.rng
           /\ call' = r.out
    /\ repeated' = (call.status # "none" /\ call.tmpl = template_str /\ call.seed = seed)
    /\ UNCHANGED <<template, specs, normVars, calls, ttsVars>>

\* on the template the caller holds
Resolve(seed) == Call(template, seed)

\* on the prompt of the call before, with the same specs
ResolveAgain(seed) ==
    /\ call.status = "returned"
    /\ Call(call.prompt, seed)

Next ==
    \/ \E seed \in SeedArgs : Resolve(seed)
    \/ \E seed \in SeedArgs : ResolveAgain(seed)

\* every input
Spec == Init /\ [][Next]_vars
\* the inputs of one kind
SpecSel == InitSel /\ [][Next]_vars
SpecKey == InitKey /\ [][Next]_vars
SpecDup == InitDup /\ [][Next]_vars
SpecTmpl == InitTmpl /\ [][Next]_vars

---------------------------------------------------------------------------
(* What the claims are stated with. *)

Returned == call.status = "returned"

\* the pattern's matches in t from position i on, left to right, not overlapping
RECURSIVE MatchesFrom(_, _)
MatchesFrom(t, i) ==
    IF i > Len(t) THEN <<>>
    ELSE LET m == MatchAt(t, i)
         IN  IF m.found
             THEN <<[start |-> i, end |-> m.end, name |-> m.name, text |-> m.text]>>
                  \o MatchesFrom(t, m.end)
             ELSE MatchesFrom(t, i + 1)

Matches(t) == MatchesFrom(t, 1)

\* vals joined with a comma and a space
RECURSIVE CommaJoinTo(_, _)
CommaJoinTo(vals, k) ==
    IF k = 0 THEN <<>>
    ELSE IF k = 1 THEN vals[1]
    ELSE CommaJoinTo(vals, k - 1) \o <<",", " ">> \o vals[k]

CommaJoin(vals) == CommaJoinTo(vals, Len(vals))

\* t with the text of match k replaced by texts[k], up to and with match k
RECURSIVE SpliceTo(_, _, _, _)
SpliceTo(t, ms, texts, k) ==
    IF k = 0 THEN <<>>
    ELSE SpliceTo(t, ms, texts, k - 1)
         \o SubSeq(t, IF k = 1 THEN 1 ELSE ms[k - 1].end, ms[k].start - 1)
         \o texts[k]

Splice(t, ms, texts) ==
    SpliceTo(t, ms, texts, Len(ms))
    \o SubSeq(t, IF ms = <<>> THEN 1 ELSE ms[Len(ms)].end, Len(t))

\* the text the call put in for match m
PutIn(m) ==
    IF m.name \in DOMAIN call.selections
    THEN CommaJoin(call.selections[m.name])
    ELSE m.text

\* where the text put in for match k starts in the prompt
RECURSIVE PromptStart(_, _)
PromptStart(ms, k) ==
    IF k = 1 THEN ms[1].start
    ELSE PromptStart(ms, k - 1) + Len(PutIn(ms[k - 1]))
         + (ms[k].start - ms[k - 1].end)

Unresolved(m) == m.name \notin DOMAIN call.selections

\* the specs the code keeps: those of the two shapes whose key it tests have one
Kept(p) == p.shape = "model" \/ ~Falsy(p.key)

\* the last spec, in input order, that the code keeps for key
LastSpecFor(key) ==
    LET last == CHOOSE i \in 1..Len(specs) :
                   /\ Kept(specs[i]) /\ specs[i].key = key
                   /\ \A j \in (i + 1)..Len(specs) :
                          ~(Kept(specs[j]) /\ specs[j].key = key)
    IN  specs[last]

\* the entries of a spec's distribution: none when it is missing
EntriesOf(p) ==
    IF p.valueDistribution.given THEN p.valueDistribution.items ELSE <<>>

WarningsOfKind(kinds) == SelectSeq(call.warnings, LAMBDA w : w.kind \in kinds)

---------------------------------------------------------------------------
(* C1.  In the result of a call, every placeholder occurrence whose name is *)
(* not a key of selections stands in the prompt exactly as written in the  *)
(* template, inner whitespace included, and the warnings about placeholders *)
(* are one per such occurrence, in order, each naming its placeholder; so  *)
(* when no placeholder is resolved the prompt is the template.             *)
C1_UnresolvedKept ==
    Returned =>
        LET ms == Matches(call.tmpl)
            un == SelectSeq(ms, Unresolved)
        IN  /\ \A k \in 1..Len(ms) :
                  Unresolved(ms[k]) =>
                      /\ PromptStart(ms, k) + Len(ms[k].text) - 1 <= Len(call.prompt)
                      /\ SubSeq(call.prompt, PromptStart(ms, k),
                                PromptStart(ms, k) + Len(ms[k].text) - 1) = ms[k].text
            /\ WarningsOfKind({"unresolved"})
                  = [k \in 1..Len(un) |-> WUnresolved(un[k].name)]
            /\ (\A k \in 1..Len(ms) : Unresolved(ms[k])) => call.prompt = call.tmpl

\* a template with one placeholder, written with inner spaces, that no spec
\* resolves, came back unchanged with exactly one warning
C1_Witness ==
    /\ Returned
    /\ Len(Matches(call.tmpl)) = 1
    /\ Matches(call.tmpl)[1].text = <<"{", "{", " ", "a", " ", "}", "}">>
    /\ call.selections = <<>>
    /\ call.prompt = call.tmpl
    /\ call.warnings = <<WUnresolved(KeyA)>>

---------------------------------------------------------------------------
(* C4.  The prompt of a call is the template with every placeholder whose   *)
(* name is a key of selections replaced by that key's values joined with   *)
(* ", " (nothing when there are none), the same text at every occurrence,  *)
(* and everything else, text put in included, as it was; a key is selected *)
(* once.  With the one parameter a, single-pick, whose only entry is A     *)
(* with probability 1: selections = {a: [A]} and no warnings when a is the *)
(* template's only placeholder.                                            *)
C4_Substitution ==
    Returned =>
        LET ms == Matches(call.tmpl)
        IN  /\ call.prompt = Splice(call.tmpl, ms, [k \in 1..Len(ms) |-> PutIn(ms[k])])
            /\ \A key \in DOMAIN call.selections :
                  ~LastSpecFor(key).chooseMultiple => call.draws[key] <= 1
            /\ (/\ specs = <<ParamSpec("dict", KeyA, TRUE,
                                       <<Entry("dict", ValA, One)>>, FALSE)>>
                /\ \A k \in 1..Len(ms) : ms[k].name = KeyA)
               => /\ call.selections = [x \in {KeyA} |-> <<ValA>>]
                  /\ call.warnings = <<>>
                  /\ call.prompt = Splice(call.tmpl, ms, [k \in 1..Len(ms) |-> ValA])


\* both occurrences of a placeholder got the same two values joined, one of
\* them text that reads as the placeholder of another selected key
C4_Witness ==
    /\ Returned
    /\ call.tmpl = <<"{", "{", " ", "a", " ", "}", "}", "a", "{", "{", " ", "a", " ", "}", "}">>
    /\ KeyB \in DOMAIN call.selections
    /\ call.prompt = <<"A", ",", " ", "{", "{", "b", "}", "}", "a",
                       "A", ",", " ", "{", "{", "b", "}", "}">>


---------------------------------------------------------------------------
(* C5.  Two calls, one right after the other, on the same template and      *)
(* specs with the same seed (not None) end the same way, with the same     *)
(* prompt, selections and warnings, whatever the generator's state was     *)
(* before the first of them.                                               *)
C5_SeededRepeat ==
    [][(repeated' /\ call'.seed # NoSeed)
       => /\ call'.status = call.status
          /\ call'.prompt = call.prompt
          /\ call'.selections = call.selections
          /\ call'.warnings = call.warnings]_vars

\* the second of two such calls, both of which drew from the generator
C5_Witness ==
    /\ repeated
    /\ call.seed # NoSeed
    /\ Returned
    /\ \E key \in DOMAIN call.draws : call.draws[key] = 2


---------------------------------------------------------------------------
(* More of what the claims are stated with. *)

\* the value of an entry as the string the selector works with
ListedValue(e) == StrValue(NormalizeItem(e).value)

\* an entry whose probability is a number above 0, at least 1, or none above 0
PositiveWeight(e) ==
    \/ e.probability.kind = "inf"
    \/ e.probability.kind = "num" /\ e.probability.n > 0
AtLeastOne(e) ==
    \/ e.probability.kind = "inf"
    \/ e.probability.kind = "num" /\ e.probability.n >= e.probability.d
NotPositive(e) ==
    \/ e.probability.kind \in {"str", "none", "absent"}
    \/ e.probability.kind = "num" /\ e.probability.n <= 0

\* the values of the entries that mask keeps, in the entries' order
RECURSIVE MaskedTo(_, _, _)
MaskedTo(es, mask, k) ==
    IF k = 0 THEN <<>>
    ELSE IF mask[k] THEN Append(MaskedTo(es, mask, k - 1), ListedValue(es[k]))
    ELSE MaskedTo(es, mask, k - 1)

\* keys whose last kept spec has no entries
EmptyKey(key) ==
    key \in DOMAIN call.selections /\ EntriesOf(LastSpecFor(key)) = <<>>

---------------------------------------------------------------------------
(* C2.  Every single-pick spec whose distribution has an entry of positive *)
(* weight gets exactly one string in selections, the value of one of its   *)
(* entries, whatever the generator draws.                                  *)
C2_SinglePickOneListed ==
    Returned =>
        \A key \in DOMAIN call.selections :
            LET p == LastSpecFor(key)
                es == EntriesOf(p)
            IN  (~p.chooseMultiple /\ \E i \in 1..Len(es) : PositiveWeight(es[i]))
                => /\ Len(call.selections[key]) = 1
                   /\ \E i \in 1..Len(es) : call.selections[key][1] = ListedValue(es[i])

---------------------------------------------------------------------------
(* C3.  A multi-pick selection is the values of some of the spec's entries, *)
(* in the entries' order and with repeated values kept, among them every   *)
(* entry of probability at least 1 and none of probability 0 or less or    *)
(* not a number; each remaining entry is decided by one draw of its own.   *)
C3_MultiPick ==
    Returned =>
        \A key \in DOMAIN call.selections :
            LET p == LastSpecFor(key)
                es == EntriesOf(p)
            IN  p.chooseMultiple =>
                /\ \E mask \in [1..Len(es) -> BOOLEAN] :
                      /\ \A i \in 1..Len(es) : AtLeastOne(es[i]) => mask[i]
                      /\ \A i \in 1..Len(es) : NotPositive(es[i]) => ~mask[i]
                      /\ call.selections[key] = MaskedTo(es, mask, Len(es))
                /\ call.draws[key] =
                      Cardinality({i \in 1..Len(es) :
                                      ~AtLeastOne(es[i]) /\ ~NotPositive(es[i])})

\* two entries with the same value, one drawn for and one of probability 2,
\* are both in the selection
C3_Witness ==
    /\ Returned
    /\ Len(specs) = 1
    /\ specs[1].chooseMultiple
    /\ EntriesOf(specs[1]) = <<Entry("dict", ValA, Half), Entry("dict", ValA, Num(2, 1))>>
    /\ call.selections[KeyA] = <<ValA, ValA>>
    /\ call.draws[KeyA] = 1

---------------------------------------------------------------------------
(* C6.  A spec of any shape whose key is missing or empty is skipped: one   *)
(* warning carries its index, and every key of selections is a non-empty   *)
(* key of some spec.                                                       *)
C6_MissingKeySkipped ==
    Returned =>
        /\ \A i \in 1..Len(specs) :
              Falsy(specs[i].key) =>
                  Len(SelectSeq(call.warnings,
                                LAMBDA w : /\ w.kind \in {"missing_key", "missing_key_object"}
                                           /\ w.idx = i - 1)) = 1
        /\ \A key \in DOMAIN call.selections :
              ~Falsy(key) /\ \E i \in 1..Len(specs) : specs[i].key = key

---------------------------------------------------------------------------
(* C7.  A key whose distribution is empty or missing, in either mode, has  *)
(* selections[key] = [], exactly one warning, no draw, and nothing in the  *)
(* prompt where its placeholders were.                                     *)
C7_EmptyDistribution ==
    Returned =>
        LET ms == Matches(call.tmpl)
        IN  /\ \A i \in 1..Len(specs) :
                  Kept(specs[i]) => specs[i].key \in DOMAIN call.selections
            /\ \A key \in DOMAIN call.selections :
                  EmptyKey(key) <=>
                      Len(SelectSeq(call.warnings,
                                    LAMBDA w : w = WNoDistribution(key))) = 1
            /\ \A key \in DOMAIN call.selections :
                  EmptyKey(key) =>
                      /\ call.selections[key] = <<>>
                      /\ call.draws[key] = 0
            /\ call.prompt =
                  Splice(call.tmpl, ms,
                         [k \in 1..Len(ms) |->
                             IF EmptyKey(ms[k].name) THEN <<>> ELSE PutIn(ms[k])])

\* an attribute-bearing multi-pick spec with no valueDistribution: both
\* placeholders of its key are gone from the prompt, with one warning
C7_Witness ==
    /\ Returned
    /\ specs = <<ParamSpec("obj", KeyA, FALSE, <<>>, TRUE)>>
    /\ call.tmpl = KeyTemplate
    /\ call.selections = [x \in {KeyA} |-> <<>>]
    /\ call.prompt = <<":">>
    /\ call.warnings = <<WNoDistribution(KeyA)>>

---------------------------------------------------------------------------
(* C8.  No call raises, whatever the specs' keys, distributions and        *)
(* probabilities are.                                                      *)
C8_NeverRaises == call.status # "raised"


---------------------------------------------------------------------------
(* C9.  A template with no placeholder syntax. *)

AllIn(t, i, j, class) == \A k \in i..(j - 1) : t[k] \in class

\* t holds "{{", optional spaces, a name of at least one character, optional
\* spaces and "}}" in a row
HasPlaceholder(t) ==
    \E i \in 1..Len(t) :
        /\ TwoAt(t, i, "{")
        /\ \E j3 \in (i + 3)..Len(t) :
              /\ TwoAt(t, j3, "}")
              /\ \E j1 \in (i + 2)..(j3 - 1) : \E j2 \in (j1 + 1)..j3 :
                    /\ AllIn(t, i + 2, j1, SpaceChars)
                    /\ AllIn(t, j1, j2, NameChars)
                    /\ AllIn(t, j2, j3, SpaceChars)

\* the warnings the specs alone account for: one for each spec of a shape whose
\* key is tested and is missing or empty, one for each key with no entries
SpecWarningCount ==
    Cardinality({i \in 1..Len(specs) : ~Kept(specs[i])})
    + Cardinality({key \in DOMAIN call.selections : EmptyKey(key)})

(* C9 as claimed: on a template with no placeholder syntax the prompt is    *)
(* the template and there are no warnings, whatever the specs.             *)
C9_NoPlaceholderNoWarnings ==
    (Returned /\ ~HasPlaceholder(call.tmpl))
    => /\ call.prompt = call.tmpl
       /\ call.warnings = <<>>

(* C9 as amended: on a template with no placeholder syntax the prompt is    *)
(* the template, character for character, and no warning is about a        *)
(* placeholder: the warnings are those for the specs with a missing key or *)
(* an empty distribution, and there are none when there are no such specs. *)
C9_NoPlaceholderUnchanged ==
    (Returned /\ ~HasPlaceholder(call.tmpl))
    => /\ call.prompt = call.tmpl
       /\ \A k \in 1..Len(call.warnings) :
             call.warnings[k].kind \in {"missing_key", "missing_key_object",
                                        "no_distribution"}
       /\ Len(call.warnings) = SpecWarningCount

\* the prompt of a call that resolved every placeholder, resolved again: it
\* comes back as it is, with the warning of the spec that has no key
C9_Witness ==
    /\ Returned
    /\ call.tmpl # template
    /\ HasPlaceholder(template)
    /\ ~HasPlaceholder(call.tmpl)
    /\ call.prompt = call.tmpl
    /\ call.warnings = <<WMissingKey(0)>>

---------------------------------------------------------------------------
(* C10.  Specs with the same key. *)

\* the specs without those that a later kept spec with the same key follows
RECURSIVE DropEarlierFrom(_)
DropEarlierFrom(i) ==
    IF i > Len(specs) THEN <<>>
    ELSE IF /\ Kept(specs[i])
            /\ \E j \in (i + 1)..Len(specs) :
                  Kept(specs[j]) /\ specs[j].key = specs[i].key
         THEN DropEarlierFrom(i + 1)
         ELSE <<specs[i]>> \o DropEarlierFrom(i + 1)

\* the specs with each kept spec replaced by the last kept spec with its key
LastContent ==
    [i \in 1..Len(specs) |->
        IF Kept(specs[i]) THEN LastSpecFor(specs[i].key) ELSE specs[i]]

\* the generator's state n draws back
RECURSIVE Rewind(_, _)
Rewind(g, n) ==
    IF n = 0 THEN g
    ELSE Rewind([i \in 1..TapeLen |-> IF i = 1 THEN g[TapeLen] ELSE g[i - 1]], n - 1)

RECURSIVE SumDraws(_)
SumDraws(keys) ==
    IF keys = {} THEN 0
    ELSE LET key == CHOOSE x \in keys : TRUE
         IN  call.draws[key] + SumDraws(keys \ {key})

\* the last call's outcome is known to be a function of its input and of the
\* generator's state at its start: it was seeded, or it returned its draws
Replayable == call.status # "none" /\ (call.seed # NoSeed \/ Returned)

\* the generator's state at the start of the last call, when it was not seeded
StartRng == IF Returned THEN Rewind(rng, SumDraws(DOMAIN call.draws)) ELSE rng

(* C10 as claimed: the call ends as it would without the earlier specs of  *)
(* each repeated key.                                                      *)
C10_EarlierSpecsNoEffect ==
    Replayable =>
        call = getPromptFromTemplate(call.tmpl, DropEarlierFrom(1), call.seed,
                                     StartRng).out

(* C10 as amended: selections[key] comes from the last spec with that key, *)
(* by one selection, and no warning is about the repetition; the earlier   *)
(* specs with the key count only by their place: the call ends as it would *)
(* with each of them replaced, where it stands, by the last spec with its  *)
(* key.                                                                    *)
C10_LastSpecWins ==
    Replayable =>
        /\ call = getPromptFromTemplate(call.tmpl, LastContent, call.seed,
                                        StartRng).out
        /\ Returned =>
              /\ Len(call.warnings) =
                    SpecWarningCount
                    + Len(SelectSeq(Matches(call.tmpl), Unresolved))
              /\ \A key \in DOMAIN call.selections :
                    call.draws[key] <= Len(EntriesOf(LastSpecFor(key)))

\* three specs, the first and the last for one key and differing, the second
\* for another key, and a draw made for each key
C10_Witness ==
    /\ Returned
    /\ Len(specs) = 3
    /\ specs[1].key = specs[3].key
    /\ specs[2].key # specs[1].key
    /\ specs[1].chooseMultiple # specs[3].chooseMultiple
    /\ EntriesOf(specs[1]) # EntriesOf(specs[3])
    /\ \A key \in DOMAIN call.draws : call.draws[key] >= 1

---------------------------------------------------------------------------
(* The normalizer and the single-pick selector, each run on its own on a   *)
(* distribution of plain dicts.                                            *)

\* the distributions of the selection inputs, as plain dicts
NormInputs == {_normalize_vdist_items(d) : d \in SeqsUpTo(SelEntries, MaxEntries)}

\* the resolver is not run
ResolverIdle ==
    /\ template = <<>>
    /\ specs = <<>>
    /\ call = NoResult(NoSeed, <<>>, "none")
    /\ repeated = FALSE

InitNorm ==
    /\ distributions \in NormInputs
    /\ rng \in RngStates
    /\ normalized = NotRun
    /\ picked = NotRun
    /\ ResolverIdle
    /\ ConcIdle
    /\ TTSIdle

\* probs = _normalize_probabilities(distributions)
Normalize ==
    /\ normalized' = [status |-> "returned", value |-> _normalize_probabilities(distributions)]
    /\ UNCHANGED <<template, specs, rng, call, repeated, distributions, picked, calls, ttsVars>>

\* picked = _pick_one_value(distributions)
PickOne ==
    /\ LET r == _pick_one_value(distributions, rng)
       IN  /\ picked' = [status |-> IF r.raised THEN "raised" ELSE "returned",
                         value |-> r.value]
           /\ rng' = r.rng
    /\ UNCHANGED <<template, specs, call, repeated, distributions, normalized, calls, ttsVars>>

NextNorm == Normalize \/ PickOne

SpecNorm == InitNorm /\ [][NextNorm]_vars

\* the weights the normalizer starts from, and whether one of them is above 0
Coerced == [i \in 1..Len(distributions) |-> CoercedProb(distributions[i])]
SomePositive == \E i \in 1..Len(distributions) : FLt(Zero, Coerced[i])

\* the values single-pick may return: those listed, at the positions in where
PickableAt(where) == {StrValue(distributions[i].value) : i \in where}

---------------------------------------------------------------------------
(* C11.  The normalizer's list is as long as its input and every weight in *)
(* it is at least 0.  When a coerced weight is above 0, position i holds   *)
(* weight_i / sum, the list sums to 1, the entries with a missing,         *)
(* unparseable or negative probability hold 0, and single-pick returns the *)
(* value of an entry whose weight is above 0.  When no coerced weight is   *)
(* above 0, every position holds 1 / count and single-pick returns a       *)
(* listed value.                                                           *)
C11_NormalizedWeights ==
    LET n == Len(distributions)
        w == normalized.value
        sum == FSumTo(Coerced, n)
    IN  /\ normalized.status = "returned" =>
              /\ Len(w) = n
              /\ \A i \in 1..n : FGe(w[i], Zero)
              /\ SomePositive =>
                    /\ \A i \in 1..n : w[i] = FDiv(Coerced[i], sum)
                    /\ FLe(FSumTo(w, n), One) /\ FGe(FSumTo(w, n), One)
                    /\ \A i \in 1..n :
                          NotPositive(distributions[i]) => FLe(w[i], Zero)
              /\ ~SomePositive => \A i \in 1..n : w[i] = Num(1, n)
        /\ (n > 0 /\ SomePositive) =>
              /\ picked.status # "raised"
              /\ picked.status = "returned" =>
                    picked.value \in PickableAt({i \in 1..n : FLt(Zero, Coerced[i])})
        /\ (n > 0 /\ ~SomePositive) =>
              /\ picked.status # "raised"
              /\ picked.status = "returned" => picked.value \in PickableAt(1..n)

---------------------------------------------------------------------------
(* Two calls of getPromptFromTemplate under way at the same time, in two    *)
(* threads of one process: each with its own seed, both on the one random  *)
(* source of the random module.  A thread may be switched out between any  *)
(* two of its uses of the random source: random.seed, the random.choices   *)
(* of a single-pick, each random.random of a multi-pick.                   *)

Callers == {1, 2}

\* the field of a call's selection state that the shared source stands in for
NoRng == <<>>

\* key_to_details of the call's input, and the warnings of building it
Built == KeyToDetailsTo(specs, Len(specs))

\* the entries of the k-th key of key_to_details, as plain dicts
NormVDist(k) == _normalize_vdist_items(RawVDist(Built.dct[k].details))

ConcInputs ==
    {[template |-> DupTemplate, specs |-> l] : l \in SeqsUpTo(DupSpecs, MaxConcSpecs)}

InitConc ==
    /\ \E in \in ConcInputs : template = in.template /\ specs = in.specs
    /\ rng \in RngStates
    /\ calls \in [Callers -> {[pc |-> "seed", seed |-> <<s>>, k |-> 0, j |-> 0,
                               acc |-> [values |-> <<>>, draws |-> 0],
                               st |-> [raised |-> FALSE, selections |-> <<>>,
                                       draws |-> <<>>, warnings |-> <<>>,
                                       rng |-> NoRng],
                               out |-> NoResult(<<s>>, template, "none")] :
                              s \in Seeds}]
    /\ call = NoResult(NoSeed, <<>>, "none")
    /\ repeated = FALSE
    /\ NormIdle
    /\ TTSIdle

\* lines 144-168: random.seed(seed), then the key map and its warnings
SeedStep(c) ==
    /\ calls[c].pc = "seed"
    /\ rng' = SeedIfGiven(calls[c].seed, rng)
    /\ calls' = [calls EXCEPT ![c].pc = "select", ![c].k = 1,
                              ![c].st.warnings = Built.warnings]
    /\ UNCHANGED <<template, specs, call, repeated, normVars, ttsVars>>

\* one round of the loop of lines 171-195 up to its use of the random source:
\* an empty distribution or a single-pick is the whole round, a multi-pick
\* goes on to its entries
SelectStep(c) ==
    /\ calls[c].pc = "select"
    /\ calls[c].k <= Len(Built.dct)
    /\ LET k == calls[c].k
           item == Built.dct[k]
           r == SelectFor(item.key, item.details, [calls[c].st EXCEPT !.rng = rng])
       IN  IF NormVDist(k) # <<>> /\ item.details.chooseMultiple
           THEN /\ calls' = [calls EXCEPT ![c].pc = "trial", ![c].j = 1,
                                          ![c].acc = [values |-> <<>>, draws |-> 0]]
                /\ rng' = rng
           ELSE IF r.raised
           THEN /\ calls' = [calls EXCEPT ![c].pc = "done", ![c].out.status = "raised"]
                /\ rng' = rng
           ELSE /\ calls' = [calls EXCEPT ![c].st = [r EXCEPT !.rng = NoRng],
                                          ![c].k = k + 1]
                /\ rng' = r.rng
    /\ UNCHANGED <<template, specs, call, repeated, normVars, ttsVars>>

\* one entry of the loop of _pick_multiple_values (lines 64-76); after the
\* last entry the list is the key's selection (line 195)
TrialStep(c) ==
    /\ calls[c].pc = "trial"
    /\ LET k == calls[c].k
           j == calls[c].j
           dists == NormVDist(k)
           t == BernoulliTrial(dists[j], [values |-> calls[c].acc.values, rng |-> rng,
                                          draws |-> calls[c].acc.draws])
       IN  /\ rng' = t.rng
           /\ calls' =
                 IF j < Len(dists)
                 THEN [calls EXCEPT ![c].j = j + 1,
                                    ![c].acc = [values |-> t.values, draws |-> t.draws]]
                 ELSE [calls EXCEPT ![c].pc = "select", ![c].k = k + 1, ![c].j = 0,
                                    ![c].acc = [values |-> <<>>, draws |-> 0],
                                    ![c].st = SetSelection(calls[c].st, Built.dct[k].key,
                                                           t.values, NoRng, t.draws)]
    /\ UNCHANGED <<template, specs, call, repeated, normVars, ttsVars>>

\* lines 198-211: the substitution pass and the return
FinishStep(c) ==
    /\ calls[c].pc = "select"
    /\ calls[c].k > Len(Built.dct)
    /\ LET st == calls[c].st
           filled == SubFrom(template, 1, st.selections,
                             [prompt |-> <<>>, warnings |-> st.warnings])
       IN  calls' = [calls EXCEPT
                        ![c].pc = "done",
                        ![c].out = [seed |-> calls[c].seed, tmpl |-> template,
                                    status |-> "returned", prompt |-> filled.prompt,
                                    selections |-> st.selections,
                                    warnings |-> filled.warnings, draws |-> st.draws]]
    /\ UNCHANGED <<template, specs, rng, call, repeated, normVars, ttsVars>>

NextConc ==
    \E c \in Callers : SeedStep(c) \/ SelectStep(c) \/ TrialStep(c) \/ FinishStep(c)

SpecConc == InitConc /\ [][NextConc]_vars

\* what the call of c returns when it runs alone
Alone(c) == getPromptFromTemplate(template, specs, calls[c].seed, rng).out

---------------------------------------------------------------------------
(* C12.  Each of two calls with its own seed, their steps on the random    *)
(* source interleaved in any order, ends as it ends when it runs alone on  *)
(* its input with its seed: the same prompt, selections and warnings.      *)
C12_OwnSeedIsolated ==
    \A c \in Callers :
        calls[c].pc = "done" =>
            /\ calls[c].out.status = Alone(c).status
            /\ calls[c].out.prompt = Alone(c).prompt
            /\ calls[c].out.selections = Alone(c).selections
            /\ calls[c].out.warnings = Alone(c).warnings

---------------------------------------------------------------------------
(* OpenAiTTSProvider.generate_speech (src/tts_util.py): the retry loop.    *)
(* A provider is made with max_retries in 0..MaxRetries and a retry_delay  *)
(* that is not negative, so that every time.sleep returns; every request   *)
(* comes back with a response or an exception.                             *)

\* what one pass through the try block can come to at the request:
\* a response, raise_for_status raising for 429, for a status >= 500 or for
\* another status, another requests exception, or any other exception
Outcomes == {"ok", "http_429", "http_5xx", "http_other", "request_exception",
             "unexpected"}

\* the outcomes after which the handler sleeps and the loop goes on
Retried == {"http_429", "http_5xx", "request_exception"}

\* os.path.join(folder, filename) of the call
FilePaths == {"out/000_a.wav", "out/001_b.wav"}

NoPath == [kind |-> "none", path |-> ""]

\* a loop that makes one pass more than range(max_retries)
InRange_inclusive(i, n) == i <= n

\* i in range(n), for the i the for loop has come to
InRange(i, n) == i < n

InitTTS ==
    /\ max_retries \in 0..MaxRetries
    /\ file_path \in FilePaths
    /\ attempt = 0
    /\ last_exception = "None"
    /\ tts_pc = "for"
    /\ sent = 0
    /\ outcome = "none"
    /\ succeeded = FALSE
    /\ result = NoPath
    /\ ResolverIdle
    /\ rng = SeedState(1)
    /\ NormIdle
    /\ ConcIdle

\* for attempt in range(self.max_retries): the next pass, or the end of the loop
ForAttempt ==
    /\ tts_pc = "for"
    /\ tts_pc' = IF InRange(attempt, max_retries) THEN "request" ELSE "failed"
    /\ UNCHANGED <<max_retries, file_path, attempt, last_exception, sent, outcome,
                   succeeded, result, promptVars>>

\* response = self._make_tts_request(...), and the handler its exception gets
MakeRequest(o) ==
    /\ tts_pc = "request"
    /\ sent' = sent + 1
    /\ outcome' = o
    /\ succeeded' = (succeeded \/ o = "ok")
    /\ last_exception' = IF o = "ok" THEN last_exception ELSE o
    /\ tts_pc' = IF o = "ok" THEN "save"
                 ELSE IF o \in Retried THEN "sleep"
                 ELSE "failed"
    /\ UNCHANGED <<max_retries, file_path, attempt, result, promptVars>>

\* with open(file_path, 'wb') as f: f.write(audio_data); return file_path,
\* or the exception of the write, which is none of requests'
SaveAudio(written) ==
    /\ tts_pc = "save"
    /\ IF written
       THEN /\ result' = [kind |-> "returned", path |-> file_path]
            /\ tts_pc' = "done"
            /\ UNCHANGED <<last_exception, outcome>>
       ELSE /\ last_exception' = "unexpected"
            /\ outcome' = "unexpected"
            /\ tts_pc' = "failed"
            /\ UNCHANGED result
    /\ UNCHANGED <<max_retries, file_path, attempt, sent, succeeded, promptVars>>

\* time.sleep(wait_time), and on to the next attempt
Sleep ==
    /\ tts_pc = "sleep"
    /\ attempt' = attempt + 1
    /\ tts_pc' = "for"
    /\ UNCHANGED <<max_retries, file_path, last_exception, sent, outcome, succeeded,
                   result, promptVars>>

\* raise Exception(error_msg)
RaiseFailed ==
    /\ tts_pc = "failed"
    /\ result' = [kind |-> "raised", path |-> ""]
    /\ tts_pc' = "done"
    /\ UNCHANGED <<max_retries, file_path, attempt, last_exception, sent, outcome,
                   succeeded, promptVars>>

NextTTS ==
    \/ ForAttempt
    \/ \E o \in Outcomes : MakeRequest(o)
    \/ \E written \in BOOLEAN : SaveAudio(written)
    \/ Sleep
    \/ RaiseFailed

SpecTTS == InitTTS /\ [][NextTTS]_vars

\* the call is never left in the middle of a step
SpecTTSFair == SpecTTS /\ WF_vars(NextTTS)

---------------------------------------------------------------------------
(* C13.  generate_speech sends at most max_retries requests and ends.  It   *)
(* returns the file path only after a request succeeded, and sends no      *)
(* request after a success.  After a 429, a status >= 500 or a request     *)
(* exception it goes on to the next attempt, so that it gives up after     *)
(* such an outcome only when max_retries requests were sent; after another *)
(* HTTP error or an unexpected exception no request follows.  When no      *)
(* request succeeded it ends raising, with no path.                        *)
C13_Safe ==
    /\ sent <= max_retries
    /\ result.kind = "returned" =>
          succeeded /\ outcome = "ok" /\ result.path = file_path
    /\ succeeded => tts_pc \in {"save", "failed", "done"}
    /\ (outcome \in Retried /\ tts_pc \in {"failed", "done"}) => sent = max_retries
    /\ (outcome \in Retried /\ sent < max_retries) => tts_pc \in {"sleep", "for", "request"}
    /\ outcome \in {"http_other", "unexpected"} => tts_pc \in {"failed", "done"}
    /\ (tts_pc = "done" /\ ~succeeded) => result = [kind |-> "raised", path |-> ""]
    /\ tts_pc = "done" => result.kind \in {"returned", "raised"}

C13_RetryLoop == []C13_Safe /\ <>(tts_pc = "done")

\* the third of three requests succeeded after a 429 and a server error, and
\* the path came back
C13_Witness ==
    /\ tts_pc = "done"
    /\ max_retries = 3
    /\ sent = 3
    /\ last_exception = "http_5xx"
    /\ result = [kind |-> "returned", path |-> file_path]

====
